---- MODULE Spec2Model ----
(***************************************************************************)
(* A model of the gradient / Jacobian extraction engine of the PyTorch     *)
(* machine (netket/machine/torch.py) and of the SteadyState driver step    *)
(* (netket/drivers/steady_state.py).                                       *)
(*                                                                         *)
(* Numbers are integers.  A complex number is a pair <<re, im>>.  An       *)
(* optional value is <<>> (Python's None) or <<v>>.                        *)
(***************************************************************************)
EXTENDS Integers, Sequences, FiniteSets, TLC

VARIABLES
    \* ---- Torch machine ----
    children,          \* self._module.children(): the layer kinds, in order
    backpack_imported, \* module-level _backpack_imported
    use_backpack,      \* self._use_backpack
    params,            \* self._module.parameters(): sequence of parameter tensors
    n_par,             \* self._n_par
    grad,              \* p.grad of every parameter tensor (<<>> is None)
    grad_batch,        \* p.grad_batch of every parameter tensor (<<>> is unset)
    pc,                \* position inside the running Torch call
    x,                 \* the batch argument of the running / last call
    vec,               \* the vec argument of vector_jacobian_prod
    out,               \* the out buffer of the running / last call
    arg,               \* the vector handed to the parameters setter
    got,               \* the vector returned by the parameters getter
    raised,            \* the exception the last call raised ("" when none)
    warned,            \* whether the last setter call issued its warning
    \* ---- SteadyState driver ----
    target,            \* self.state.parameters: dtype of every parameter group
    sr,                \* self.sr  (<<>> is None)
    sr_restart,        \* self.sr_restart
    dp,                \* self._dp (<<>> is None)
    loss_grad,         \* self._loss_grad
    S,                 \* self._S: the caller whose step built the tensor (0: unset)
    solve_x0,          \* x0 of the last self._S.solve call (<<>> is None)
    solved,            \* what the last self._S.solve call returned
    returned,          \* what the last _forward_and_backward returned
    \* ---- concurrent callers of the driver ----
    state,             \* driver state machine: "Idle" or "Stepping"
    tpc,               \* position of every caller inside _forward_and_backward
    tgrad,             \* the bare gradient every caller's own step computed
    tsol               \* what the solve (or the bare gradient) of every caller's
                       \* own step put into self._dp

torchVars  == <<children, backpack_imported, use_backpack, params, n_par,
                grad, grad_batch, pc, x, vec, out, arg, got, raised, warned>>
driverVars == <<target, sr, sr_restart, dp, loss_grad, S, solve_x0, solved,
                returned>>
threadVars == <<state, tpc, tgrad, tsol>>
vars       == <<torchVars, driverVars, threadVars>>

(***************************************************************************)
(* Bounds of the model.                                                    *)
(***************************************************************************)
BatchSize == 2      \* samples in a configuration batch
NGroups   == 2      \* parameter groups (leaves) of the variational state
NCallers  == 2      \* callers asking the same driver for a step
MaxExtra  == 1      \* an assigned vector has at most n_par + MaxExtra entries

Vals   == {1, 2}                        \* the values a parameter entry takes
Spins  == {-1, 1}                       \* a spin-1/2 configuration of one site
Batches == [1 .. BatchSize -> Spins]
Weights == {<<1, 0>>, <<0, 1>>, <<1, 1>>} \* the complex weights 1, i, 1 + i
None   == <<>>
Some(v) == <<v>>

RECURSIVE SumSeq(_)
SumSeq(s) == IF s = <<>> THEN 0 ELSE Head(s) + SumSeq(Tail(s))

RECURSIVE Cat(_)
\* torch.cat of a tuple of flat tensors
Cat(ss) == IF ss = <<>> THEN <<>> ELSE Head(ss) \o Cat(Tail(ss))

Zeros(n) == [i \in 1 .. n |-> 0]

(***************************************************************************)
(* The modules handed to Torch.  A module is a stack of two or three       *)
(* children over one visible site:                                         *)
(*    h = W * x                 first child, Linear or 1x1 Conv2d, no bias *)
(*    g = Gamma * Mix(h)        optional middle child                      *)
(*    m[:, c] = V[c] * g        last child, Linear(1, 2), no bias          *)
(* Middle children: TorchView (a reshape: no parameter, per sample),       *)
(* Scale (one parameter Gamma, per sample), BatchNormPlain (no parameter,  *)
(* centres every sample on the batch: Mix(h)[k] = B*h[k] - sum(h)),        *)
(* BatchNormAffine (centres, then scales by its parameter Gamma).          *)
(***************************************************************************)
Architectures ==
    { <<"Linear", "Linear">>,
      <<"Conv2d", "TorchView", "Linear">>,
      <<"Linear", "Scale", "Linear">>,
      <<"Linear", "BatchNormPlain", "Linear">>,
      <<"Conv2d", "BatchNormAffine", "Linear">> }

\* whether a child's forward mixes the samples of the batch
MixesBatch(kind) == kind \in {"BatchNormPlain", "BatchNormAffine"}

\* sum(p.numel() for p in module.parameters()) of child i
Numel(ch, i) ==
    IF ch[i] \in {"Linear", "Conv2d"} THEN (IF i = Len(ch) THEN 2 ELSE 1)
    ELSE IF ch[i] \in {"Scale", "BatchNormAffine"} THEN 1
    ELSE 0

\* the children that hold a parameter tensor, in module.parameters() order
ParamLayers(ch) == SelectSeq([i \in 1 .. Len(ch) |-> i], LAMBDA i : Numel(ch, i) > 0)

\* every parameter list a module of these children can hold
ParamLists(ch) ==
    LET PL == ParamLayers(ch)
        Data == UNION { [1 .. n -> Vals] : n \in 1 .. 2 }
    IN  { [k \in 1 .. Len(PL) |->
              [layer |-> PL[k], data |-> d[k], requires_grad |-> r[k]]] :
          d \in { dd \in [1 .. Len(PL) -> Data] :
                    \A k \in 1 .. Len(PL) : Len(dd[k]) = Numel(ch, PL[k]) },
          r \in [1 .. Len(PL) -> BOOLEAN] }

(***************************************************************************)
(* torch.py 13-20                                                          *)
(***************************************************************************)
GetDifferentiableParameters(ps) == SelectSeq(ps, LAMBDA p : p.requires_grad)

GetNumberParameters(ps) ==
    LET dps == GetDifferentiableParameters(ps)
    IN  SumSeq([k \in 1 .. Len(dps) |-> Len(dps[k].data)])

(***************************************************************************)
(* Torch.__init__, torch.py 28-38: the backend selection.                  *)
(***************************************************************************)
UseBackpack(ch, imported) ==
    IF imported
    THEN ~ \E i \in 1 .. Len(ch) :
             ch[i] \notin {"Conv2d", "Linear"} /\ Numel(ch, i) # 0
    ELSE FALSE

(***************************************************************************)
(* Torch.parameters, getter (torch.py 48-57) and setter (torch.py 71-89).  *)
(***************************************************************************)
\* .astype(complex128) of a float64
AsComplex(v) == <<v, 0>>

ParametersGet(ps) ==
    LET dps  == GetDifferentiableParameters(ps)
        flat == Cat([k \in 1 .. Len(dps) |-> dps[k].data])
    IN  [i \in 1 .. Len(flat) |-> AsComplex(flat[i])]

\* the mutant: the copy loop never advances i
CopyStartStuck(ps, k) == 0

\* the value of i when the copy loop reaches tensor k
CopyStart(ps, k) ==
    SumSeq([j \in 1 .. k - 1 |-> IF ps[j].requires_grad THEN Len(ps[j].data) ELSE 0])

\* the mutant: the length check is missing
WrongShapeNever(p, n) == FALSE

\* torch_pars.numel() != self._n_par
WrongShape(p, n) == Len(p) # n

\* the setter: the parameters it leaves, what it raised, whether it warned
ParametersSet(ps, n, p) ==
    LET torch_pars == [i \in 1 .. Len(p) |-> p[i][1]]       \* p.real
        warns      == \E i \in 1 .. Len(p) : p[i][2] # 0
        Piece(k)   ==
            LET lo == CopyStart(ps, k)
            IN  [j \in 1 .. Len(ps[k].data) |->
                    IF lo + j \in 1 .. Len(torch_pars)
                    THEN torch_pars[lo + j] ELSE ps[k].data[j]]
    IN  IF WrongShape(torch_pars, n)
        THEN [params |-> ps, raised |-> "ValueError", warned |-> warns]
        ELSE [params |-> [k \in 1 .. Len(ps) |->
                            IF ps[k].requires_grad
                            THEN [ps[k] EXCEPT !.data = Piece(k)]
                            ELSE ps[k]],
              raised |-> "", warned |-> warns]

(***************************************************************************)
(* The forward pass self._module(x) and reverse-mode differentiation of    *)
(* it, as torch's autograd carries them out on a module of the family.     *)
(***************************************************************************)
HasLayer(ps, i) == \E k \in 1 .. Len(ps) : ps[k].layer = i
ParamAt(ps, i)  == ps[CHOOSE k \in 1 .. Len(ps) : ps[k].layer = i]

MidKind(ch) == IF Len(ch) = 3 THEN ch[2] ELSE "TorchView"
Gamma(ch, ps) == IF HasLayer(ps, 2) /\ Len(ch) = 3 THEN ParamAt(ps, 2).data[1] ELSE 1

Forward(ch, ps, xb) ==
    LET B   == Len(xb)
        W   == ParamAt(ps, 1).data[1]
        V   == ParamAt(ps, Len(ch)).data
        gam == Gamma(ch, ps)
        mix == MixesBatch(MidKind(ch))
        h   == [i \in 1 .. B |-> W * xb[i]]
        sh  == SumSeq(h)
        c   == [i \in 1 .. B |-> IF mix THEN B * h[i] - sh ELSE h[i]]
        g   == [i \in 1 .. B |-> gam * c[i]]
    IN  [h |-> h, c |-> c, g |-> g,
         m |-> [i \in 1 .. B |-> <<V[1] * g[i], V[2] * g[i]>>]]

\* Backpropagation of the cotangent ct (one pair per sample) of the output:
\* total[k] is the gradient of parameter tensor k, batch[k][n] the part of it
\* that BatchGrad attributes to sample n (grad_output[n] times input[n]).
Backward(ch, ps, xb, ct) ==
    LET B   == Len(xb)
        fw  == Forward(ch, ps, xb)
        fg  == fw.g
        fc  == fw.c
        V   == ParamAt(ps, Len(ch)).data
        gam == Gamma(ch, ps)
        mix == MixesBatch(MidKind(ch))
        dg  == [i \in 1 .. B |-> ct[i][1] * V[1] + ct[i][2] * V[2]]
        dc  == [i \in 1 .. B |-> gam * dg[i]]
        sdc == SumSeq(dc)
        dh  == [i \in 1 .. B |-> IF mix THEN B * dc[i] - sdc ELSE dc[i]]
        PerSample(k, n) ==
            IF ps[k].layer = Len(ch) THEN <<ct[n][1] * fg[n], ct[n][2] * fg[n]>>
            ELSE IF ps[k].layer = 1 THEN <<dh[n] * xb[n]>>
            ELSE <<dg[n] * fc[n]>>
        dV1 == SumSeq([n \in 1 .. B |-> ct[n][1] * fg[n]])
        dV2 == SumSeq([n \in 1 .. B |-> ct[n][2] * fg[n]])
        dW  == SumSeq([n \in 1 .. B |-> dh[n] * xb[n]])
        dGm == SumSeq([n \in 1 .. B |-> dg[n] * fc[n]])
    IN  [total |-> [k \in 1 .. Len(ps) |->
                      IF ps[k].layer = Len(ch) THEN <<dV1, dV2>>
                      ELSE IF ps[k].layer = 1 THEN <<dW>>
                      ELSE <<dGm>>],
         batch |-> [k \in 1 .. Len(ps) |-> [n \in 1 .. B |-> PerSample(k, n)]]]

\* cotangents
OneHot(B, i, c) == [n \in 1 .. B |-> <<IF n = i /\ c = 1 THEN 1 ELSE 0,
                                       IF n = i /\ c = 2 THEN 1 ELSE 0>>]
ChannelSum(B, c) == [n \in 1 .. B |-> <<IF c = 1 THEN 1 ELSE 0,
                                        IF c = 2 THEN 1 ELSE 0>>]

\* tensor.backward(ct): accumulates into p.grad of every differentiable tensor
Accumulate(ps, gr, total) ==
    [k \in 1 .. Len(ps) |->
        IF ~ ps[k].requires_grad THEN gr[k]
        ELSE IF gr[k] = None THEN Some(total[k])
        ELSE Some([j \in 1 .. Len(total[k]) |-> gr[k][1][j] + total[k][j]])]

\* with backpack(BatchGrad()): backward also sets p.grad_batch
SetGradBatch(ps, gb, batch) ==
    [k \in 1 .. Len(ps) |-> IF ps[k].requires_grad THEN Some(batch[k]) ELSE gb[k]]

\* the mutant: zero_grad leaves the buffers as they are
ZeroGradNothing(ps, gr) == gr

\* module.zero_grad() (torch.py 145, 160) and the local zero_grad (181-184)
ZeroGrad(ps, gr) ==
    [k \in 1 .. Len(ps) |->
        IF gr[k] = None THEN None ELSE Some(Zeros(Len(gr[k][1])))]

\* torch.autograd.grad(m[i, c], self._parameters): flat, no accumulation
AutogradGrad(ch, ps, xb, i, c) ==
    LET t   == Backward(ch, ps, xb, OneHot(Len(xb), i, c)).total
        idx == SelectSeq([k \in 1 .. Len(ps) |-> k], LAMBDA k : ps[k].requires_grad)
    IN  Cat([j \in 1 .. Len(idx) |-> t[idx[j]]])

(***************************************************************************)
(* Torch.der_log (torch.py 113-164).                                       *)
(***************************************************************************)
\* rows 1 .. i of out as the loop over the samples writes them, torch.py 150-158
RECURSIVE DerLogRows(_, _, _, _)
DerLogRows(ch, ps, xb, i) ==
    IF i = 0 THEN <<>>
    ELSE LET re == AutogradGrad(ch, ps, xb, i, 1)
             im == AutogradGrad(ch, ps, xb, i, 2)
         IN  Append(DerLogRows(ch, ps, xb, i - 1),
                    [j \in 1 .. Len(re) |-> <<re[j], im[j]>>])

\* the per-sample loop, torch.py 148-158
DerLogLoop(ch, ps, xb) == DerLogRows(ch, ps, xb, Len(xb))

\* the mutant: every row is the batch-summed gradient (p.grad for p.grad_batch)
GradBatchRowsSummed(ps, gb, B) ==
    LET idx == SelectSeq([k \in 1 .. Len(ps) |-> k], LAMBDA k : ps[k].requires_grad)
        Tot(k) == [j \in 1 .. Len(ps[k].data) |->
                      SumSeq([n \in 1 .. B |-> gb[k][1][n][j]])]
    IN  [n \in 1 .. B |-> Cat([j \in 1 .. Len(idx) |-> Tot(idx[j])])]

\* write_to of der_log, torch.py 126-133: p.grad_batch flattened, side by side
GradBatchRows(ps, gb, B) ==
    LET idx == SelectSeq([k \in 1 .. Len(ps) |-> k], LAMBDA k : ps[k].requires_grad)
    IN  [n \in 1 .. B |-> Cat([j \in 1 .. Len(idx) |-> gb[idx[j]][1][n]])]

\* write_to of vector_jacobian_prod, torch.py 172-179: p.grad flattened
GradFlat(ps, gr) ==
    LET idx == SelectSeq([k \in 1 .. Len(ps) |-> k], LAMBDA k : ps[k].requires_grad)
    IN  Cat([j \in 1 .. Len(idx) |-> gr[idx[j]][1]])

\* out.real = rows / out.imag = rows of a (B x n_par) complex buffer
WithReal(o, rows) == [n \in 1 .. Len(o) |-> [j \in 1 .. Len(o[n]) |-> <<rows[n][j], o[n][j][2]>>]]
WithImag(o, rows) == [n \in 1 .. Len(o) |-> [j \in 1 .. Len(o[n]) |-> <<o[n][j][1], rows[n][j]>>]]

\* the whole fused branch, torch.py 135-143, as a function of the batch
DerLogBackpack(ch, ps, xb) ==
    LET B  == Len(xb)
        re == Backward(ch, ps, xb, ChannelSum(B, 1)).batch
        im == Backward(ch, ps, xb, ChannelSum(B, 2)).batch
        none == [k \in 1 .. Len(ps) |-> None]
        rr == GradBatchRows(ps, SetGradBatch(ps, none, re), B)
        ii == GradBatchRows(ps, SetGradBatch(ps, none, im), B)
    IN  [n \in 1 .. B |-> [j \in 1 .. Len(rr[n]) |-> <<rr[n][j], ii[n][j]>>]]

\* np.empty: a buffer whose entries are not yet written
Unwritten == <<"?", "?">>
Empty2(B, n) == [i \in 1 .. B |-> [j \in 1 .. n |-> Unwritten]]
Empty1(n)    == [j \in 1 .. n |-> Unwritten]

(***************************************************************************)
(* Idle values of the variables a specification does not use.              *)
(***************************************************************************)
TorchCallIdle ==
    /\ pc = "idle" /\ x = <<>> /\ vec = <<>> /\ out = <<>>

ParamCallIdle ==
    /\ arg = <<>> /\ got = <<>> /\ raised = "" /\ warned = FALSE

TorchIdle ==
    /\ children = <<>> /\ backpack_imported = FALSE /\ use_backpack = FALSE
    /\ params = <<>> /\ n_par = 0 /\ grad = <<>> /\ grad_batch = <<>>
    /\ TorchCallIdle /\ ParamCallIdle

DriverIdle ==
    /\ target = <<>> /\ sr = None /\ sr_restart = FALSE /\ dp = None
    /\ loss_grad = <<>> /\ S = 0 /\ solve_x0 = None /\ solved = <<>>
    /\ returned = None

ThreadsIdle ==
    /\ state = "Idle" /\ tpc = <<>> /\ tgrad = <<>> /\ tsol = <<>>

\* Torch.__init__ (torch.py 24-44) on a module of the family
TorchConstructed ==
    /\ children \in Architectures
    /\ backpack_imported \in BOOLEAN
    /\ use_backpack = UseBackpack(children, backpack_imported)
    /\ params \in ParamLists(children)
    /\ n_par = GetNumberParameters(params)
    /\ grad = [k \in 1 .. Len(params) |-> None]
    /\ grad_batch = [k \in 1 .. Len(params) |-> None]

(***************************************************************************)
(* SpecParams: reads and assignments of Torch.parameters.                  *)
(***************************************************************************)
\* the vectors a caller assigns: every length up to n_par + MaxExtra
Assignable(n) == UNION { [1 .. len -> Vals \X {0, 1}] : len \in 0 .. n + MaxExtra }

InitParams ==
    /\ TorchConstructed
    /\ backpack_imported = FALSE
    /\ children \in { <<"Linear", "Linear">>, <<"Linear", "Scale", "Linear">> }
    /\ n_par > 0
    /\ pc = "new" /\ x = <<>> /\ vec = <<>> /\ out = <<>>
    /\ ParamCallIdle /\ DriverIdle /\ ThreadsIdle

\* v = machine.parameters
GetParameters ==
    /\ got' = ParametersGet(params)
    /\ pc' = "get" /\ arg' = <<>> /\ raised' = "" /\ warned' = FALSE
    /\ UNCHANGED <<children, backpack_imported, use_backpack, params, n_par,
                   grad, grad_batch, x, vec, out>>
    /\ UNCHANGED <<driverVars, threadVars>>

\* machine.parameters = p
SetParameters ==
    /\ pc # "set"
    /\ \E p \in Assignable(n_par) :
          LET r == ParametersSet(params, n_par, p)
          IN  /\ arg' = p
              /\ params' = r.params
              /\ raised' = r.raised
              /\ warned' = r.warned
    /\ pc' = "set" /\ got' = <<>>
    /\ UNCHANGED <<children, backpack_imported, use_backpack, n_par,
                   grad, grad_batch, x, vec, out>>
    /\ UNCHANGED <<driverVars, threadVars>>

NextParams == GetParameters \/ SetParameters

SpecParams == InitParams /\ [][NextParams]_vars

(***************************************************************************)
(* Torch.vector_jacobian_prod (torch.py 167-205).                          *)
(***************************************************************************)
\* the mutant: the second channel is not negated
GetVecNoFlip(v, is_real) ==
    [n \in 1 .. Len(v) |->
        IF is_real THEN <<v[n][1], v[n][2]>> ELSE <<v[n][2], v[n][1]>>]

\* get_vec, torch.py 188-195
GetVec(v, is_real) ==
    [n \in 1 .. Len(v) |->
        IF is_real THEN <<v[n][1], v[n][2]>> ELSE <<v[n][2], 0 - v[n][1]>>]

\* the mutant: no zeroing between the two passes
ZeroGradBetweenSkipped(ps, gr) == gr

\* the zero_grad() between the two passes, torch.py 201
ZeroGradBetween(ps, gr) == ZeroGrad(ps, gr)

(***************************************************************************)
(* SpecTorch: der_log and vector_jacobian_prod calls on one machine, one   *)
(* statement group per step.                                               *)
(***************************************************************************)
Returned == {"dl_ret", "vjp_ret"}

InitTorch ==
    /\ TorchConstructed
    /\ \A k \in 1 .. Len(params) : params[k].requires_grad
    /\ TorchCallIdle /\ ParamCallIdle /\ DriverIdle /\ ThreadsIdle

TorchFrame == UNCHANGED <<children, backpack_imported, use_backpack, params, n_par,
                          arg, got, raised, warned, driverVars, threadVars>>

\* der_log(x): torch.py 115-123
DerLogCall ==
    /\ pc = "idle"
    /\ \E xb \in Batches :
          /\ x' = xb
          /\ out' = Empty2(Len(xb), n_par)
    /\ vec' = <<>>
    /\ pc' = IF use_backpack THEN "dl_bwd_real" ELSE "dl_loop"
    /\ UNCHANGED <<grad, grad_batch>>
    /\ TorchFrame

\* torch.py 135-138: the pass on channel 0 and its write_to(out.real)
DerLogRealPass ==
    /\ pc = "dl_bwd_real"
    /\ LET bw == Backward(children, params, x, ChannelSum(Len(x), 1))
           gb == SetGradBatch(params, grad_batch, bw.batch)
       IN  /\ grad' = Accumulate(params, grad, bw.total)
           /\ grad_batch' = gb
           /\ out' = WithReal(out, GradBatchRows(params, gb, Len(x)))
    /\ pc' = "dl_bwd_imag"
    /\ UNCHANGED <<x, vec>>
    /\ TorchFrame

\* torch.py 140-143: the pass on channel 1 and its write_to(out.imag)
DerLogImagPass ==
    /\ pc = "dl_bwd_imag"
    /\ LET bw == Backward(children, params, x, ChannelSum(Len(x), 2))
           gb == SetGradBatch(params, grad_batch, bw.batch)
       IN  /\ grad' = Accumulate(params, grad, bw.total)
           /\ grad_batch' = gb
           /\ out' = WithImag(out, GradBatchRows(params, gb, Len(x)))
    /\ pc' = "dl_zero"
    /\ UNCHANGED <<x, vec>>
    /\ TorchFrame

\* torch.py 148-158
DerLogPerSample ==
    /\ pc = "dl_loop"
    /\ out' = DerLogLoop(children, params, x)
    /\ pc' = "dl_zero"
    /\ UNCHANGED <<x, vec, grad, grad_batch>>
    /\ TorchFrame

\* torch.py 145 / 160, and the return 162-164
DerLogZeroReturn ==
    /\ pc = "dl_zero"
    /\ grad' = ZeroGrad(params, grad)
    /\ pc' = "dl_ret"
    /\ UNCHANGED <<x, vec, out, grad_batch>>
    /\ TorchFrame

\* vector_jacobian_prod(x, vec): torch.py 169-198, up to the first zero_grad()
VjpCall ==
    /\ pc = "idle"
    /\ \E xb \in Batches, v \in [1 .. BatchSize -> Weights] :
          /\ x' = xb
          /\ vec' = v
    /\ out' = Empty1(n_par)
    /\ grad' = ZeroGrad(params, grad)
    /\ pc' = "vjp_bwd_real"
    /\ UNCHANGED grad_batch
    /\ TorchFrame

\* torch.py 199-201: the first pass, write_to(out.real), zero_grad()
VjpRealPass ==
    /\ pc = "vjp_bwd_real"
    /\ LET gr == Accumulate(params, grad,
                            Backward(children, params, x, GetVec(vec, TRUE)).total)
           g  == GradFlat(params, gr)
       IN  /\ out' = [j \in 1 .. Len(out) |-> <<g[j], out[j][2]>>]
           /\ grad' = ZeroGradBetween(params, gr)
    /\ pc' = "vjp_bwd_imag"
    /\ UNCHANGED <<x, vec, grad_batch>>
    /\ TorchFrame

\* torch.py 202-205: the second pass, write_to(out.imag), return out
VjpImagPass ==
    /\ pc = "vjp_bwd_imag"
    /\ LET gr == Accumulate(params, grad,
                            Backward(children, params, x, GetVec(vec, FALSE)).total)
           g  == GradFlat(params, gr)
       IN  /\ out' = [j \in 1 .. Len(out) |-> <<out[j][1], g[j]>>]
           /\ grad' = gr
    /\ pc' = "vjp_ret"
    /\ UNCHANGED <<x, vec, grad_batch>>
    /\ TorchFrame

\* the caller takes the result; the machine is ready for the next call
TakeResult ==
    /\ pc \in Returned
    /\ pc' = "idle" /\ x' = <<>> /\ vec' = <<>> /\ out' = <<>>
    /\ UNCHANGED <<grad, grad_batch>>
    /\ TorchFrame

NextTorch ==
    \/ DerLogCall \/ DerLogRealPass \/ DerLogImagPass \/ DerLogPerSample
    \/ DerLogZeroReturn
    \/ VjpCall \/ VjpRealPass \/ VjpImagPass \/ TakeResult

SpecTorch == InitTorch /\ [][NextTorch]_vars

(***************************************************************************)
(* Properties of the Torch machine.                                        *)
(***************************************************************************)
CMul(a, b) == <<a[1] * b[1] - a[2] * b[2], a[1] * b[2] + a[2] * b[1]>>
Conj(a)    == <<a[1], 0 - a[2]>>
CSum(zs)   == <<SumSeq([i \in 1 .. Len(zs) |-> zs[i][1]]),
                SumSeq([i \in 1 .. Len(zs) |-> zs[i][2]])>>

\* w^T . J  and  w^T . conj(J)  for a weight vector w and a Jacobian J
VecJac(w, J) ==
    [j \in 1 .. Len(J[1]) |-> CSum([i \in 1 .. Len(w) |-> CMul(w[i], J[i][j])])]
VecJacConj(w, J) ==
    [j \in 1 .. Len(J[1]) |-> CSum([i \in 1 .. Len(w) |-> CMul(w[i], Conj(J[i][j]))])]

\* the Jacobian der_log returns through the backend the machine selected
DerLog(ch, ps, ub, xb) ==
    IF ub THEN DerLogBackpack(ch, ps, xb) ELSE DerLogLoop(ch, ps, xb)

\* the architectural restriction of the fused backend: no child mixes the
\* batch, and only Linear / Conv2d children hold parameters
Applicable(ch) ==
    \A i \in 1 .. Len(ch) :
        /\ ~ MixesBatch(ch[i])
        /\ Numel(ch, i) > 0 => ch[i] \in {"Linear", "Conv2d"}

\* every p.grad of a trainable tensor is None or all zeros
GradZeroed ==
    \A k \in 1 .. Len(params) :
        params[k].requires_grad =>
            \/ grad[k] = None
            \/ grad[k] = Some(Zeros(Len(params[k].data)))

\* C3, as stated: vector_jacobian_prod(batch, w) equals w^T . Jacobian(batch),
\* the Jacobian being what der_log returns on the same batch and parameters.
\* Stated here for the machines on the per-sample backend alone.
C3_VjpIsWeightedJacobian ==
    (pc = "vjp_ret" /\ ~ use_backpack) =>
        out = VecJac(vec, DerLog(children, params, use_backpack, x))

\* C3, amended: vector_jacobian_prod(batch, w) equals w^T . conj(Jacobian(batch)),
\* that is sum_i w[i] * conj(J[i, :]), J being the per-sample Jacobian (row i:
\* derivative of sample i's channel 0 in the real part, of its channel 1 in the
\* imaginary part) as der_log's per-sample loop returns it.
C3_VjpIsWeightedConjugateJacobian ==
    pc = "vjp_ret" =>
        out = VecJacConj(vec, DerLogLoop(children, params, x))

C3_Witness ==
    /\ pc = "vjp_ret"
    /\ \E i \in 1 .. Len(vec) : vec[i] = <<1, 1>>
    /\ \E j \in 1 .. Len(out) : out[j][1] # 0 /\ out[j][2] # 0
    /\ out # VecJac(vec, DerLogLoop(children, params, x))

\* C4: on every model the fused backend is applicable to, der_log returns the
\* same Jacobian through the fused backend as through the per-sample loop,
\* whichever of the two the machine ran: row i holds sample i's own gradients.
C4_BackendsAgree ==
    (pc = "dl_ret" /\ Applicable(children)) =>
        /\ out = DerLogLoop(children, params, x)
        /\ out = DerLogBackpack(children, params, x)

C4_Witness ==
    /\ pc = "dl_ret" /\ use_backpack /\ Applicable(children)
    /\ \E j \in 1 .. n_par : out[1][j] # out[2][j] /\ out[1][j][2] # 0

\* C7: whenever der_log returns, through either backend and whatever earlier
\* calls left in the buffers, p.grad of every trainable tensor is zeroed.
C7_DerLogLeavesGradZeroed ==
    pc = "dl_ret" => GradZeroed

C7_Witness ==
    /\ pc = "dl_ret"
    /\ \E k \in 1 .. Len(params) : grad[k] # None
    /\ \E i \in 1 .. Len(out) : \E j \in 1 .. n_par : out[i][j][1] # 0

\* C9, as stated: the fused backend is selected only if backpack is available
\* and no child mixes the batch or holds parameters other than a Linear's or a
\* Conv2d's; der_log runs the fused passes only when it is selected and the
\* per-sample loop otherwise.
C9_FusedOnlyWhenApplicable ==
    /\ use_backpack => (backpack_imported /\ Applicable(children))
    /\ pc \in {"dl_bwd_real", "dl_bwd_imag"} => use_backpack
    /\ pc = "dl_loop" => ~ use_backpack

BackwardBegins == {"dl_bwd_real", "dl_bwd_imag", "vjp_bwd_real", "vjp_bwd_imag"}

\* C10, as stated: every backward pass begins on drained buffers: the pass
\* before it was read and the buffers zeroed, inside a call and across calls.
C10_EveryPassStartsDrained ==
    pc \in BackwardBegins => GradZeroed

\* C10, amended: every backward pass of vector_jacobian_prod begins on zeroed
\* buffers, with the result of the pass before it already read into out; the
\* fused passes of der_log begin on whatever the buffers hold and are not
\* separated by a zeroing: their results are read from p.grad_batch, which
\* each pass overwrites, and the buffers are zeroed once, before der_log returns.
C10_VjpPassesStartDrained ==
    /\ pc \in {"vjp_bwd_real", "vjp_bwd_imag"} => GradZeroed
    /\ pc = "vjp_bwd_imag" =>
          LET t == Backward(children, params, x, GetVec(vec, TRUE)).total
              f == Cat([k \in 1 .. Len(params) |-> t[k]])
          IN  \A j \in 1 .. n_par : out[j][1] = f[j]
    /\ pc = "dl_bwd_imag" =>
          LET b == Backward(children, params, x, ChannelSum(Len(x), 1)).batch
          IN  /\ \A k \in 1 .. Len(params) : grad_batch[k] = Some(b[k])
              /\ \A n \in 1 .. Len(x) : \A j \in 1 .. n_par :
                    out[n][j][1] = Cat([k \in 1 .. Len(params) |-> b[k][n]])[j]
    /\ pc = "dl_ret" => GradZeroed

C10_Witness ==
    /\ pc = "vjp_bwd_imag"
    /\ \E j \in 1 .. n_par : out[j][1] # 0
    /\ \A k \in 1 .. Len(params) : grad[k] = Some(Zeros(Len(params[k].data)))

(***************************************************************************)
(* Properties of Torch.parameters.                                         *)
(***************************************************************************)
\* C5: assigning a vector whose number of entries differs from n_par raises
\* ValueError and modifies no parameter.
C5_WrongLengthRaisesAndKeeps ==
    [][ (pc' = "set" /\ Len(arg') # n_par) =>
            (raised' = "ValueError" /\ params' = params) ]_vars

C5_Witness ==
    /\ pc = "set" /\ raised = "ValueError"
    /\ Len(arg) = n_par + 1
    /\ \E k \in 1 .. Len(params) : params[k].data[1] # arg[1][1]

\* C6: assigning the vector just read leaves every parameter tensor unchanged,
\* and reading after assigning a vector of length n_par with zero imaginary
\* part returns that vector, entry for entry.
C6_FlattenUnflattenInverse ==
    [][ pc' = "set" =>
          /\ arg' = ParametersGet(params) => params' = params
          /\ (Len(arg') = n_par /\ \A i \in 1 .. Len(arg') : arg'[i][2] = 0) =>
                ParametersGet(params') = arg' ]_vars

C6_Witness ==
    /\ pc = "set" /\ raised = "" /\ ~ warned
    /\ arg = ParametersGet(params)
    /\ Len(arg) >= 3 /\ arg[1] # arg[2] /\ arg[2] # arg[3]
    /\ \E k \in 1 .. Len(params) : ~ params[k].requires_grad

(***************************************************************************)
(* The SteadyState driver, steady_state.py.  An update direction has one   *)
(* leaf per parameter group; a leaf is an array, here of one entry, with   *)
(* its dtype.  What expect_and_grad and the solver compute is not part of  *)
(* the driver: every value they can hand back is considered.               *)
(***************************************************************************)
Dtypes == {"float64", "complex128"}

\* the leaves expect_and_grad and solve hand back: 1 + 0j and 0 + 2j
Leaves == { [dtype |-> "complex128", val |-> <<1, 0>>],
            [dtype |-> "complex128", val |-> <<0, 2>>] }
Directions == [1 .. NGroups -> Leaves]

\* jnp.iscomplexobj(target)
IsComplexObj(dt) == dt = "complex128"

\* x.real
RealPart(leaf) == [dtype |-> "float64", val |-> <<leaf.val[1], 0>>]

\* the mutant: the direction is returned as the solver left it
ProjectNothing(d, tg) == d

\* jax.tree_multimap(lambda x, target: x if iscomplexobj(target) else x.real,
\*                   self._dp, self.state.parameters), steady_state.py 96-100
Project(d, tg) ==
    [g \in 1 .. Len(d) |-> IF IsComplexObj(tg[g]) THEN d[g] ELSE RealPart(d[g])]

\* the mutant: the previous direction is always reused
WarmStartAlways(prev, restart) == prev

\* x0 = self._dp if self.sr_restart is False else None, steady_state.py 89
WarmStart(prev, restart) == IF restart = FALSE THEN prev ELSE None

\* SteadyState.__init__, steady_state.py 21-70
DriverConstructed ==
    /\ target \in [1 .. NGroups -> Dtypes]
    /\ sr \in {None, Some("SR")}
    /\ sr_restart \in BOOLEAN
    /\ dp = None
    /\ loss_grad = <<>> /\ S = 0 /\ solve_x0 = None /\ solved = <<>>
    /\ returned = None

(***************************************************************************)
(* SpecDriver: steps of one driver, one after the other.                   *)
(***************************************************************************)
InitDriver ==
    /\ DriverConstructed
    /\ TorchIdle /\ ThreadsIdle

\* one call of _forward_and_backward, steady_state.py 72-102
ForwardAndBackward ==
    \E g \in Directions, r \in Directions :
        /\ loss_grad' = g
        /\ IF sr # None
           THEN /\ S' = 1
                /\ solve_x0' = WarmStart(dp, sr_restart)
                /\ solved' = r
                /\ dp' = Some(Project(r, target))
           ELSE /\ dp' = Some(Project(g, target))
                /\ UNCHANGED <<S, solve_x0, solved>>
        /\ returned' = dp'
        /\ UNCHANGED <<target, sr, sr_restart>>
        /\ UNCHANGED <<torchVars, threadVars>>

NextDriver == ForwardAndBackward

SpecDriver == InitDriver /\ [][NextDriver]_vars

(***************************************************************************)
(* Properties of the driver step.                                          *)
(***************************************************************************)
\* what the step projected: the solver's result, or the bare gradient
Unprojected == IF sr # None THEN solved ELSE loss_grad

\* C1: in the direction every step returns, with or without an SR solver,
\* every entry of a real-valued parameter group has zero imaginary part and
\* every entry of a complex-valued group is the solver's result (the bare
\* gradient without a solver), unchanged.
C1_ProjectionOntoRealGroups ==
    returned # None =>
        \A g \in 1 .. NGroups :
            IF IsComplexObj(target[g])
            THEN returned[1][g] = Unprojected[g]
            ELSE returned[1][g].val[2] = 0

C1_Witness ==
    /\ returned # None
    /\ \E g \in 1 .. NGroups :
          ~ IsComplexObj(target[g]) /\ Unprojected[g].val[2] # 0
    /\ \E g \in 1 .. NGroups :
          IsComplexObj(target[g]) /\ returned[1][g].val[2] # 0

\* C2: with an SR solver, the x0 handed to the solver is the direction the
\* step before returned when sr_restart is False (none at the first step) and
\* None at every step when sr_restart is True.
C2_WarmStartIsPreviousDirection ==
    [][ (sr # None /\ loss_grad' # <<>>) =>
            solve_x0' = (IF sr_restart THEN None ELSE returned) ]_vars

C2_Witness ==
    /\ sr # None /\ ~ sr_restart
    /\ solve_x0 # None /\ solve_x0 # returned
    /\ solve_x0[1] # solved

(***************************************************************************)
(* SpecCallers: several callers ask one driver for a step.  The statements *)
(* of _forward_and_backward are the steps of a caller; the driver's entry  *)
(* and exit (Idle -> Stepping -> Idle) are those of its state machine.     *)
(***************************************************************************)
Callers == 1 .. NCallers

\* a step may begin only on an idle driver
StepAllowed == state = "Idle"

InitCallers ==
    /\ DriverConstructed
    /\ state = "Idle"
    /\ tpc = [t \in Callers |-> "idle"]
    /\ tgrad = [t \in Callers |-> <<>>]
    /\ tsol = [t \in Callers |-> <<>>]
    /\ TorchIdle

At(t, from, to) == tpc[t] = from /\ tpc' = [tpc EXCEPT ![t] = to]

\* Idle -> Stepping
StepBegin(t) ==
    /\ StepAllowed
    /\ At(t, "idle", "reset")
    /\ state' = "Stepping"
    /\ UNCHANGED <<tgrad, tsol>>
    /\ UNCHANGED <<torchVars, driverVars>>

\* self.state.reset(), steady_state.py 80
Reset(t) ==
    /\ At(t, "reset", "grad")
    /\ UNCHANGED <<state, tgrad, tsol>>
    /\ UNCHANGED <<torchVars, driverVars>>

\* self._loss_stats, self._loss_grad = self.state.expect_and_grad(...), 83
ExpectAndGrad(t) ==
    /\ At(t, "grad", "branch")
    /\ \E g \in Directions :
          /\ loss_grad' = g
          /\ tgrad' = [tgrad EXCEPT ![t] = g]
    /\ UNCHANGED <<state, tsol>>
    /\ UNCHANGED <<target, sr, sr_restart, dp, S, solve_x0, solved, returned>>
    /\ UNCHANGED torchVars

\* the mutant: the tensor of an earlier step is kept
TensorKept(t, old) == old

\* self._S = self.state.quantum_geometric_tensor(self.sr), steady_state.py 86:
\* the tensor is built on the samples of the running step
TensorBuilt(t, old) == t

\* if self.sr is not None: self._S = ..., steady_state.py 85-86
BuildTensor(t) ==
    /\ sr # None
    /\ At(t, "branch", "solve")
    /\ S' = TensorBuilt(t, S)
    /\ UNCHANGED <<state, tgrad, tsol>>
    /\ UNCHANGED <<target, sr, sr_restart, dp, loss_grad, solve_x0, solved, returned>>
    /\ UNCHANGED torchVars

\* x0 = ...; self._dp = self._S.solve(self._loss_grad, x0=x0), 89-90
Solve(t) ==
    /\ At(t, "solve", "project")
    /\ \E r \in Directions :
          /\ solve_x0' = WarmStart(dp, sr_restart)
          /\ solved' = r
          /\ dp' = Some(r)
          /\ tsol' = [tsol EXCEPT ![t] = r]
    /\ UNCHANGED <<state, tgrad>>
    /\ UNCHANGED <<target, sr, sr_restart, loss_grad, S, returned>>
    /\ UNCHANGED torchVars

\* else: self._dp = self._loss_grad, steady_state.py 91-93
BareGradient(t) ==
    /\ sr = None
    /\ At(t, "branch", "project")
    /\ dp' = Some(loss_grad)
    /\ tsol' = [tsol EXCEPT ![t] = loss_grad]
    /\ UNCHANGED <<state, tgrad>>
    /\ UNCHANGED <<target, sr, sr_restart, loss_grad, S, solve_x0, solved, returned>>
    /\ UNCHANGED torchVars

\* self._dp = jax.tree_multimap(...), steady_state.py 96-100
ProjectDirection(t) ==
    /\ At(t, "project", "return")
    /\ dp' = Some(Project(dp[1], target))
    /\ UNCHANGED <<state, tgrad, tsol>>
    /\ UNCHANGED <<target, sr, sr_restart, loss_grad, S, solve_x0, solved, returned>>
    /\ UNCHANGED torchVars

\* return self._dp, steady_state.py 102
Return(t) ==
    /\ At(t, "return", "leave")
    /\ returned' = dp
    /\ UNCHANGED <<state, tgrad, tsol>>
    /\ UNCHANGED <<target, sr, sr_restart, dp, loss_grad, S, solve_x0, solved>>
    /\ UNCHANGED torchVars

\* Stepping -> Idle
StepEnd(t) ==
    /\ At(t, "leave", "idle")
    /\ state' = "Idle"
    /\ tgrad' = [tgrad EXCEPT ![t] = <<>>]
    /\ tsol' = [tsol EXCEPT ![t] = <<>>]
    /\ UNCHANGED <<torchVars, driverVars>>

NextCallers ==
    \E t \in Callers :
        \/ StepBegin(t)
        \/ Reset(t)
        \/ ExpectAndGrad(t)
        \/ BuildTensor(t)
        \/ Solve(t)
        \/ BareGradient(t)
        \/ ProjectDirection(t)
        \/ Return(t)
        \/ StepEnd(t)

SpecCallers == InitCallers /\ [][NextCallers]_vars

====
